---- MODULE Spec2Model ----
(***************************************************************************)
(* LoggerFunctionPass (src/passes/LoggerPass.cpp): an LLVM function pass   *)
(* that inserts printf calls logging function entry, every argument and    *)
(* every return.  The model holds the compilation unit (its function list  *)
(* and its global string constants), the pass as one action per            *)
(* invocation, an interpreter that executes one invocation of a function   *)
(* of the unit block by block, and a second specification in which two     *)
(* invocations of the pass run on two functions with their accesses to the *)
(* compilation unit interleaved.                                           *)
(***************************************************************************)
EXTENDS Integers, Sequences, FiniteSets

VARIABLES
    funcs,    \* the compilation unit's function list (Module::FunctionList)
    globals,  \* the compilation unit's global string constants, in creation order
    orig,     \* the function list before any run of the pass (history)
    runs,     \* runs[i]: completed runs of the pass on funcs[i] that instrumented it
    last,     \* the last invocation of the pass: function index and reported result
    exec,     \* the interpreter: one dynamic invocation of a function of the unit
    trace,    \* the printf lines that invocation has written so far
    wk        \* the workers of the parallel specification (empty in Spec)

vars == <<funcs, globals, orig, runs, last, exec, trace, wk>>

----------------------------------------------------------------------------
(* Bounds of the model. *)

MaxParams == 2      \* parameters per function
MaxBlocks == 3      \* basic blocks per function
MaxRuns   == 2      \* instrumenting runs of the pass on one function

(* Widths the pass names. *)
I64Bits    == 64    \* B.getInt64Ty()
DoubleBits == 64    \* B.getDoubleTy()
I32Bits    == 32    \* B.getInt32(ArgIndex)

----------------------------------------------------------------------------
(* Types and values of the host representation. *)

Ty(k, n) == [k |-> k, n |-> n]

VoidTy  == Ty("void", 0)
OtherTy == Ty("other", 0)          \* struct, array, vector: none of the three tests
IntTy(w) == Ty("int", w)
FPTy(w)  == Ty("fp", w)
PtrTy(as) == Ty("ptr", as)         \* n is the address space

isPointerTy(T)       == T.k = "ptr"
isIntegerTy(T)       == T.k = "int"
isFloatingPointTy(T) == T.k = "fp"
isDoubleTy(T)        == T.k = "fp" /\ T.n = DoubleBits

\* bit vectors, least significant bit first
Bit == {0, 1}

RECURSIVE UVal(_)
UVal(b) == IF b = <<>> THEN 0 ELSE b[1] + 2 * UVal(Tail(b))

Neg(b) == [i \in 1..Len(b) |-> 1 - b[i]]

\* what printf's %lld shows for a 64-bit pattern: its two's complement value
LLD(b) == IF b[Len(b)] = 0 THEN UVal(b) ELSE -(UVal(Neg(b)) + 1)

RECURSIVE Bits(_, _)
Bits(n, w) == IF w = 0 THEN <<>> ELSE <<n % 2>> \o Bits(n \div 2, w - 1)

Ones(w) == [i \in 1..w |-> 1]

\* zext iN to iM: the new high bits are zero
ZExtBits(b, w) == [i \in 1..w |-> IF i <= Len(b) THEN b[i] ELSE 0]
\* sext iN to iM: the new high bits copy the sign bit
SExtBits(b, w) == [i \in 1..w |-> IF i <= Len(b) THEN b[i] ELSE b[Len(b)]]

\* LLVM's castIsValid for the casts the pass creates
castIsValid(op, From, To) ==
    CASE op = "zext"  -> From.k = "int" /\ To.k = "int" /\ From.n < To.n
      [] op = "sext"  -> From.k = "int" /\ To.k = "int" /\ From.n < To.n
      [] op = "fpext" -> From.k = "fp" /\ To.k = "fp" /\ From.n < To.n
      [] op = "bitcast" -> From.k = To.k /\ From.n = To.n
      [] op = "addrspacecast" -> From.k = "ptr" /\ To.k = "ptr" /\ From.n # To.n
      [] OTHER -> FALSE

----------------------------------------------------------------------------
(* Names: sequences of characters. *)

printfName   == <<"p", "r", "i", "n", "t", "f">>
loggerPrefix == <<"_", "_", "l", "o", "g", "g", "e", "r">>

starts_with(Name, P) == Len(Name) >= Len(P) /\ SubSeq(Name, 1, Len(P)) = P

----------------------------------------------------------------------------
(* Instructions, operands, functions and global constants. *)

\* an operand: an argument of the function, the result of an instruction, a
\* constant (v: its bits), or the i32 constant of an argument index
Opnd(k, i, ty, v) == [k |-> k, i |-> i, ty |-> ty, v |-> v]

\* an instruction.  ins: inserted by the pass.  tag: which log a call is.
Instr(op, ins, tag, id, fmt, fn, args, ty, succ) ==
    [op |-> op, ins |-> ins, tag |-> tag, id |-> id, fmt |-> fmt, fn |-> fn,
     args |-> args, ty |-> ty, succ |-> succ]

OrigInstr(id)  == Instr("orig", FALSE, "", id, "", <<>>, <<>>, VoidTy, {})
RetInstr(ops)  == Instr("ret", FALSE, "", 0, "", <<>>, ops, VoidTy, {})
BrInstr(succ)  == Instr("br", FALSE, "", 0, "", <<>>, <<>>, VoidTy, succ)
UnreachableInstr == Instr("unreachable", FALSE, "", 0, "", <<>>, <<>>, VoidTy, {})

isTerminator(I) == I.op \in {"ret", "br", "unreachable"}

Function(name, isDecl, isIntr, params, retTy, blocks) ==
    [name |-> name, isDeclaration |-> isDecl, isIntrinsic |-> isIntr,
     params |-> params, retTy |-> retTy, blocks |-> blocks, nextId |-> 1]

\* the declaration i32 printf(ptr, ...)
PrintfDecl == Function(printfName, TRUE, FALSE, <<PtrTy(0)>>, IntTy(I32Bits), <<>>)

\* a global string constant: its name (prefix, then the function's name for a
\* name constant), the number that makes the name unique, and its text
Global(prefix, fn, n, fmt) == [prefix |-> prefix, fn |-> fn, n |-> n, fmt |-> fmt]

----------------------------------------------------------------------------
(* The eligibility filter. *)

isSkippableFunction_SkipsEmpty(F) ==
    \/ F.isDeclaration
    \/ F.isIntrinsic
    \/ F.name = <<>>
    \/ F.name = printfName
    \/ starts_with(F.name, loggerPrefix)

isSkippableFunction(F) ==
    IF F.isDeclaration THEN TRUE
    ELSE IF F.isIntrinsic THEN TRUE
    ELSE IF F.name = <<>> THEN FALSE
    ELSE IF F.name = printfName THEN TRUE
    ELSE IF starts_with(F.name, loggerPrefix) THEN TRUE
    ELSE FALSE

----------------------------------------------------------------------------
(* The state of one run of the pass: the unit's function list fl and globals *)
(* gl, the blocks of the function being rewritten, the builder's insertion   *)
(* point ip (block, index: it inserts before the instruction at that index), *)
(* whether an invalid cast was requested, and the unit accesses made (mops). *)

PassState(fl, gl, F) ==
    [fl |-> fl, gl |-> gl, blocks |-> F.blocks, nextId |-> F.nextId,
     ip |-> [b |-> 1, p |-> 1], bad |-> FALSE, mops |-> <<>>]

\* BasicBlock::getFirstInsertionPt: the first instruction that is no PHI node
getFirstInsertionPt(blk) ==
    CHOOSE p \in 1..Len(blk) :
        /\ blk[p].op # "phi"
        /\ \A q \in 1..(p - 1) : blk[q].op = "phi"

\* IRBuilder<> B(Instruction *IP): insert before IP
IRBuilder(S, b, p) == [S EXCEPT !.ip = [b |-> b, p |-> p]]

InsertAt_Overwrite(blk, p, I) == SubSeq(blk, 1, p - 1) \o <<I>> \o SubSeq(blk, p + 1, Len(blk))

InsertAt(blk, p, I) == SubSeq(blk, 1, p - 1) \o <<I>> \o SubSeq(blk, p, Len(blk))

\* IRBuilder::Insert: the instruction goes before the insertion point, which
\* stays before the same instruction
Insert(S, I) ==
    [S EXCEPT !.blocks[S.ip.b] = InsertAt(@, S.ip.p, I),
              !.ip.p = @ + 1,
              !.nextId = @ + 1]

\* an access of the run to the compilation unit
MOp(op, prefix, fn, fmt) == [op |-> op, prefix |-> prefix, fn |-> fn, fmt |-> fmt]

HasPrintf(fl) == \E j \in 1..Len(fl) : fl[j].name = printfName

getOrInsertPrintf_AlwaysInsert(S) ==
    [S EXCEPT !.fl = Append(@, PrintfDecl), !.mops = Append(@, MOp("printf", "", <<>>, ""))]

\* Module::getOrInsertFunction("printf", ...): look the name up, declare it
\* if the unit has no function of that name
getOrInsertPrintf(S) ==
    IF HasPrintf(S.fl)
    THEN [S EXCEPT !.mops = Append(@, MOp("printf", "", <<>>, ""))]
    ELSE [S EXCEPT !.fl = Append(@, PrintfDecl), !.mops = Append(@, MOp("printf", "", <<>>, ""))]

SameName(gl, prefix, fn) ==
    Cardinality({j \in 1..Len(gl) : gl[j].prefix = prefix /\ gl[j].fn = fn})

\* IRBuilder::CreateGlobalStringPtr: always a new global; the unit makes its
\* name unique
CreateGlobalStringPtr(S, fmt, prefix, fn) ==
    [S EXCEPT !.gl = Append(@, Global(prefix, fn, SameName(@, prefix, fn), fmt)),
              !.mops = Append(@, MOp("global", prefix, fn, fmt))]

getFunctionNameGlobal(S, F) == CreateGlobalStringPtr(S, "", "__logger.fn.", F.name)

\* IRBuilder::CreateCall(Printf, {Fmt, FnNameStr, args...})
CreateCall(S, tag, fmt, FnNameStr, args) ==
    Insert(S, Instr("call", TRUE, tag, S.nextId, fmt, FnNameStr, args, IntTy(I32Bits), {}))

\* a cast of V to DestTy as an instruction; its result is the operand v
CastInstr(S, op, V, DestTy) ==
    [s |-> [Insert(S, Instr(op, TRUE, "", S.nextId, "", <<>>, <<V>>, DestTy, {}))
               EXCEPT !.bad = @ \/ ~castIsValid(op, V.ty, DestTy)],
     v |-> Opnd("inst", S.nextId, DestTy, <<>>)]

\* the constant folder's result for a cast of a constant
FoldCast(S, op, V, DestTy) ==
    [s |-> [S EXCEPT !.bad = @ \/ ~castIsValid(op, V.ty, DestTy)],
     v |-> Opnd("const", 0, DestTy,
                CASE op = "zext" -> ZExtBits(V.v, DestTy.n)
                  [] op = "sext" -> SExtBits(V.v, DestTy.n)
                  [] OTHER -> V.v)]

CreateCast(S, op, V, DestTy) ==
    IF V.ty = DestTy THEN [s |-> S, v |-> V]
    ELSE IF V.k = "const" THEN FoldCast(S, op, V, DestTy)
    ELSE CastInstr(S, op, V, DestTy)

CreateSExtOrBitCast(S, V, DestTy) ==
    CreateCast(S, IF V.ty.n = DestTy.n THEN "bitcast" ELSE "sext", V, DestTy)

\* IRBuilder::CreateZExtOrBitCast: V itself when the types agree, a bitcast
\* when the widths agree, a zext otherwise
CreateZExtOrBitCast(S, V, DestTy) ==
    CreateCast(S, IF V.ty.n = DestTy.n THEN "bitcast" ELSE "zext", V, DestTy)

\* V->getType()->isDoubleTy() ? V : B.CreateFPExt(V, B.getDoubleTy())
CreateFPExt(S, V) ==
    IF isDoubleTy(V.ty) THEN [s |-> S, v |-> V]
    ELSE CreateCast(S, "fpext", V, FPTy(DoubleBits))

\* IRBuilder::CreatePointerCast to ptr (address space 0)
CreatePointerCast(S, V) == CreateCast(S, "addrspacecast", V, PtrTy(0))

getInt32(n) == Opnd("idx", n, IntTy(I32Bits), <<>>)

----------------------------------------------------------------------------
(* The emission helpers. *)

LastFmt(S) == S.gl[Len(S.gl)].fmt

emitPrintfEnter(S, FnNameStr) ==
    LET S1 == getOrInsertPrintf(S)
        S2 == CreateGlobalStringPtr(S1, ">> %s\n", "__logger.fmt.enter", <<>>)
    IN  CreateCall(S2, "enter", LastFmt(S2), FnNameStr, <<>>)

emitPrintfAggregate(S, FnNameStr, ArgIndex) ==
    LET S1 == getOrInsertPrintf(S)
        S2 == CreateGlobalStringPtr(S1, "   %s(arg%d)=(aggregate)\n", "__logger.fmt.arg.agg", <<>>)
    IN  CreateCall(S2, "arg", LastFmt(S2), FnNameStr, <<getInt32(ArgIndex)>>)

emitPrintfArgInt(S, FnNameStr, ArgIndex, V) ==
    LET S1 == getOrInsertPrintf(S)
        S2 == CreateGlobalStringPtr(S1, "   %s(arg%d)=%lld\n", "__logger.fmt.arg.i", <<>>)
        I64 == CreateZExtOrBitCast(S2, V, IntTy(I64Bits))
    IN  CreateCall(I64.s, "arg", LastFmt(S2), FnNameStr, <<getInt32(ArgIndex), I64.v>>)

emitPrintfArgFloat(S, FnNameStr, ArgIndex, V) ==
    LET S1 == getOrInsertPrintf(S)
        S2 == CreateGlobalStringPtr(S1, "   %s(arg%d)=%f\n", "__logger.fmt.arg.f", <<>>)
        D  == CreateFPExt(S2, V)
    IN  CreateCall(D.s, "arg", LastFmt(S2), FnNameStr, <<getInt32(ArgIndex), D.v>>)

emitPrintfArgPtr(S, FnNameStr, ArgIndex, V) ==
    LET S1 == getOrInsertPrintf(S)
        S2 == CreateGlobalStringPtr(S1, "   %s(arg%d)=%p\n", "__logger.fmt.arg.p", <<>>)
        P  == CreatePointerCast(S2, V)
    IN  CreateCall(P.s, "arg", LastFmt(S2), FnNameStr, <<getInt32(ArgIndex), P.v>>)

emitPrintfRetVoid(S, FnNameStr) ==
    LET S1 == getOrInsertPrintf(S)
        S2 == CreateGlobalStringPtr(S1, "<< %s returns void\n", "__logger.fmt.ret.v", <<>>)
    IN  CreateCall(S2, "ret", LastFmt(S2), FnNameStr, <<>>)

emitPrintfRetInt(S, FnNameStr, V) ==
    LET S1 == getOrInsertPrintf(S)
        S2 == CreateGlobalStringPtr(S1, "<< %s returns %lld\n", "__logger.fmt.ret.i", <<>>)
        I64 == CreateZExtOrBitCast(S2, V, IntTy(I64Bits))
    IN  CreateCall(I64.s, "ret", LastFmt(S2), FnNameStr, <<I64.v>>)

emitPrintfRetFloat(S, FnNameStr, V) ==
    LET S1 == getOrInsertPrintf(S)
        S2 == CreateGlobalStringPtr(S1, "<< %s returns %f\n", "__logger.fmt.ret.f", <<>>)
        D  == CreateFPExt(S2, V)
    IN  CreateCall(D.s, "ret", LastFmt(S2), FnNameStr, <<D.v>>)

emitPrintfRetPtr(S, FnNameStr, V) ==
    LET S1 == getOrInsertPrintf(S)
        S2 == CreateGlobalStringPtr(S1, "<< %s returns %p\n", "__logger.fmt.ret.p", <<>>)
        P  == CreatePointerCast(S2, V)
    IN  CreateCall(P.s, "ret", LastFmt(S2), FnNameStr, <<P.v>>)

\* the inline aggregate case of the return loop
emitPrintfRetAggregate(S, FnNameStr) ==
    LET S1 == getOrInsertPrintf(S)
        S2 == CreateGlobalStringPtr(S1, "<< %s returns (aggregate)\n", "__logger.fmt.ret.agg", <<>>)
    IN  CreateCall(S2, "ret", LastFmt(S2), FnNameStr, <<>>)

----------------------------------------------------------------------------
(* LoggerFunctionPass::run, for a function the filter lets through. *)

\* the body of the loop over F.args() for the argument at (1-based) position a
ArgStep(S, F, a) ==
    LET T   == F.params[a]
        Arg == Opnd("arg", a - 1, T, <<>>)
        BA  == IRBuilder(S, 1, getFirstInsertionPt(S.blocks[1]))
    IN  IF isPointerTy(T) THEN emitPrintfArgPtr(BA, F.name, a - 1, Arg)
        ELSE IF isIntegerTy(T) THEN emitPrintfArgInt(BA, F.name, a - 1, Arg)
        ELSE IF isFloatingPointTy(T) THEN emitPrintfArgFloat(BA, F.name, a - 1, Arg)
        ELSE emitPrintfAggregate(BA, F.name, a - 1)

RECURSIVE ArgLoop(_, _, _)
ArgLoop(S, F, a) ==
    IF a > Len(F.params) THEN S ELSE ArgLoop(ArgStep(S, F, a), F, a + 1)

getTerminator(blk) == blk[Len(blk)]

Returns_FirstOnly(blocks) ==
    LET R == {b \in 1..Len(blocks) : getTerminator(blocks[b]).op = "ret"}
    IN  IF R = {} THEN <<>> ELSE <<CHOOSE b \in R : \A c \in R : b <= c>>

\* the blocks whose terminator is a return, in block order
RECURSIVE ReturnsFrom(_, _)
ReturnsFrom(blocks, b) ==
    IF b > Len(blocks) THEN <<>>
    ELSE (IF getTerminator(blocks[b]).op = "ret" THEN <<b>> ELSE <<>>)
         \o ReturnsFrom(blocks, b + 1)

Returns(blocks) == ReturnsFrom(blocks, 1)

RetStep_AtEntry(S, F, b) ==
    LET RI == getTerminator(S.blocks[b])
        BR == IRBuilder(S, 1, getFirstInsertionPt(S.blocks[1]))
    IN  IF Len(RI.args) = 0 THEN emitPrintfRetVoid(BR, F.name)
        ELSE LET RetVal == RI.args[1]
                 RT == RetVal.ty
             IN  IF isPointerTy(RT) THEN emitPrintfRetPtr(BR, F.name, RetVal)
                 ELSE IF isIntegerTy(RT) THEN emitPrintfRetInt(BR, F.name, RetVal)
                 ELSE IF isFloatingPointTy(RT) THEN emitPrintfRetFloat(BR, F.name, RetVal)
                 ELSE emitPrintfRetAggregate(BR, F.name)

\* the body of the loop over Returns for the return terminating block b
RetStep(S, F, b) ==
    LET RI == getTerminator(S.blocks[b])
        BR == IRBuilder(S, b, Len(S.blocks[b]))
    IN  IF Len(RI.args) = 0 THEN emitPrintfRetVoid(BR, F.name)
        ELSE LET RetVal == RI.args[1]
                 RT == RetVal.ty
             IN  IF isPointerTy(RT) THEN emitPrintfRetPtr(BR, F.name, RetVal)
                 ELSE IF isIntegerTy(RT) THEN emitPrintfRetInt(BR, F.name, RetVal)
                 ELSE IF isFloatingPointTy(RT) THEN emitPrintfRetFloat(BR, F.name, RetVal)
                 ELSE emitPrintfRetAggregate(BR, F.name)

RECURSIVE RetLoop(_, _, _, _)
RetLoop(S, F, Rs, k) ==
    IF k > Len(Rs) THEN S ELSE RetLoop(RetStep(S, F, Rs[k]), F, Rs, k + 1)

\* lines 112..160: the rewrite of F in a unit with function list fl, globals gl
Instrument(fl, gl, F) ==
    LET S0 == PassState(fl, gl, F)
        B  == IRBuilder(S0, 1, getFirstInsertionPt(F.blocks[1]))
        S1 == getFunctionNameGlobal(B, F)
        S2 == emitPrintfEnter(S1, F.name)
        S3 == ArgLoop(S2, F, 1)
    IN  RetLoop(S3, F, Returns(S3.blocks), 1)

----------------------------------------------------------------------------
(* Execution of one invocation of a function of the unit: what the inserted *)
(* instructions do when the program runs.                                    *)

\* the values an argument or a result of type T takes in the model
Values(T) ==
    CASE T.k = "int" /\ T.n = 8 -> {Bits(200, 8), Bits(127, 8)}
      [] T.k = "int" /\ T.n # 8 -> {Ones(T.n)}
      [] T.k = "fp"    -> {<<"x">>}
      [] T.k = "ptr"   -> {<<"p">>}
      [] T.k = "other" -> {<<"s">>}
      [] OTHER -> {<<>>}

RECURSIVE ArgVals(_)
ArgVals(params) ==
    IF params = <<>> THEN {<<>>}
    ELSE {<<v>> \o r : v \in Values(Head(params)), r \in ArgVals(Tail(params))}

Idle == [st |-> "idle", fn |-> 0, blk |-> 0, args |-> <<>>, rv |-> <<>>]

\* the value of an operand: env maps the ids of executed casts to their results
Eval(O, env, ex) ==
    CASE O.k = "arg"   -> ex.args[O.i + 1]
      [] O.k = "inst"  -> env[O.i]
      [] O.k = "const" -> O.v
      [] O.k = "idx"   -> <<O.i>>
      [] OTHER         -> ex.rv

\* the result of a cast instruction; an invalid cast has no defined result
ExecCast(I, v) ==
    IF ~castIsValid(I.op, I.args[1].ty, I.ty) THEN <<"undef">>
    ELSE CASE I.op = "zext" -> ZExtBits(v, I.ty.n)
           [] I.op = "sext" -> SExtBits(v, I.ty.n)
           [] OTHER -> v

\* the line a printf call writes: its format, the name and the values
Line(I, env, ex) ==
    [tag |-> I.tag, fmt |-> I.fmt, fn |-> I.fn,
     vals |-> [j \in 1..Len(I.args) |-> Eval(I.args[j], env, ex)]]

\* the lines written by executing blk from instruction k on
RECURSIVE ExecInstrs(_, _, _, _)
ExecInstrs(blk, k, env, ex) ==
    IF k > Len(blk) THEN <<>>
    ELSE LET I == blk[k]
         IN  IF I.op = "call"
             THEN <<Line(I, env, ex)>> \o ExecInstrs(blk, k + 1, env, ex)
             ELSE IF I.op \in {"zext", "sext", "fpext", "bitcast", "addrspacecast"}
             THEN ExecInstrs(blk, k + 1,
                             [env EXCEPT ![I.id] = ExecCast(I, Eval(I.args[1], env, ex))], ex)
             ELSE ExecInstrs(blk, k + 1, env, ex)

----------------------------------------------------------------------------
(* The functions the model starts from. *)

Names ==
    { <<>>, printfName, loggerPrefix, loggerPrefix \o <<"x">>,
      <<"_", "_", "l", "o", "g", "g", "e">>, <<"p", "r", "i", "n", "t", "f", "2">>,
      <<"f">> }

ParamTypes ==
    { PtrTy(0), PtrTy(1), IntTy(8), IntTy(64), IntTy(128),
      FPTy(32), FPTy(64), FPTy(128), OtherTy }

RECURSIVE ParamLists(_)
ParamLists(n) ==
    IF n = 0 THEN {<<>>}
    ELSE ParamLists(n - 1) \cup
         {Append(l, T) : l \in {m \in ParamLists(n - 1) : Len(m) = n - 1}, T \in ParamTypes}

\* the operand lists of a return: none, a computed value, a constant
ResultOps == {<<Opnd("res", 0, T, <<>>)>> : T \in ParamTypes}
ConstOps ==
    { <<Opnd("const", 0, IntTy(8), Bits(200, 8))>>,
      <<Opnd("const", 0, IntTy(64), Ones(64))>>,
      <<Opnd("const", 0, FPTy(32), <<"x">>)>>,
      <<Opnd("const", 0, PtrTy(0), <<"p">>)>> }
RetOps == {<<>>} \cup ResultOps \cup ConstOps
FewRetOps == {<<>>, <<Opnd("res", 0, IntTy(8), <<>>)>>, <<Opnd("const", 0, IntTy(8), Bits(200, 8))>>}

RetTyOf(ops) == IF ops = <<>> THEN VoidTy ELSE ops[1].ty

\* the terminators block b of an n-block function may end in
Terms(b, n, ops) ==
    {RetInstr(ops), UnreachableInstr}
    \cup (IF b < n THEN {BrInstr({b + 1})} ELSE {})
    \cup (IF b + 2 <= n THEN {BrInstr({b + 1, b + 2})} ELSE {})
    \cup (IF b > 1 THEN {BrInstr({b})} ELSE {})

Origs(b, k) == [j \in 1..k |-> OrigInstr(10 * b + j)]

\* the bodies of n blocks: the entry block has k0 original instructions, the
\* others two
BodiesOf(n, k0, ops) ==
    { [b \in 1..n |-> Origs(b, IF b = 1 THEN k0 ELSE 2) \o <<t[b]>>] :
          t \in {u \in [1..n -> UNION {Terms(b, n, ops) : b \in 1..n}] :
                     \A b \in 1..n : u[b] \in Terms(b, n, ops)} }

Bodies(ops) == UNION {BodiesOf(n, k0, ops) : n \in 1..MaxBlocks, k0 \in {0, 2}}

OneBlock(k0, ops) == <<Origs(1, k0) \o <<RetInstr(ops)>>>>

\* every name and flag, on a one-block function
FilterFamily ==
    { Function(nm, d, i, <<IntTy(8)>>, VoidTy, IF d THEN <<>> ELSE OneBlock(1, <<>>)) :
          nm \in Names, d \in BOOLEAN, i \in BOOLEAN }
\* every parameter list, on a one-block function
ParamFamily ==
    { Function(<<"f">>, FALSE, FALSE, ps, VoidTy, OneBlock(k0, <<>>)) :
          ps \in ParamLists(MaxParams), k0 \in {0, 2} }
\* every return operand, on a one-block function
RetFamily ==
    { Function(<<"f">>, FALSE, FALSE, ps, RetTyOf(ops), OneBlock(k0, ops)) :
          ps \in {<<>>, <<IntTy(8)>>}, ops \in RetOps, k0 \in {0, 2} }
\* every control-flow graph
BodyFamily ==
    UNION { { Function(<<"f">>, FALSE, FALSE, <<IntTy(8)>>, RetTyOf(ops), body) :
                  body \in Bodies(ops) } : ops \in FewRetOps }
\* the other narrow integer widths, as parameter and as return value
NarrowFamily ==
    { Function(<<"f">>, FALSE, FALSE, <<IntTy(w)>>, IntTy(w),
               OneBlock(0, <<Opnd("res", 0, IntTy(w), <<>>)>>)) : w \in {1, 16} }

Functions == FilterFamily \cup ParamFamily \cup RetFamily \cup BodyFamily \cup NarrowFamily

----------------------------------------------------------------------------
(* The sequential specification: runs of the pass on the functions of one   *)
(* unit, then one invocation of a function of the compiled program.          *)

NoRun == [fn |-> 0, result |-> "none yet"]

Init ==
    /\ \E F \in Functions, pre \in BOOLEAN :
          /\ pre => F.name # printfName
          /\ funcs = <<F>> \o (IF pre THEN <<PrintfDecl>> ELSE <<>>)
    /\ globals = <<>>
    /\ orig = funcs
    /\ runs = [i \in 1..2 |-> 0]
    /\ last = NoRun
    /\ exec = Idle
    /\ trace = <<>>
    /\ wk = <<>>

Compiling == exec.st = "idle" /\ last.result # "crash" /\ wk = <<>>

\* run() on a function the filter skips: lines 108..110
RunPassSkip(i) ==
    /\ Compiling
    /\ isSkippableFunction(funcs[i])
    /\ last' = [fn |-> i, result |-> "all"]
    /\ UNCHANGED <<funcs, globals, orig, runs, exec, trace, wk>>

\* run() on any other function: lines 112..162
RunPassInstrument(i) ==
    /\ Compiling
    /\ ~isSkippableFunction(funcs[i])
    /\ runs[i] < MaxRuns
    /\ LET S == Instrument(funcs, globals, funcs[i])
       IN  /\ funcs' = [S.fl EXCEPT ![i].blocks = S.blocks, ![i].nextId = S.nextId]
           /\ globals' = S.gl
    /\ runs' = [runs EXCEPT ![i] = @ + 1]
    /\ last' = [fn |-> i, result |-> "none"]
    /\ UNCHANGED <<orig, exec, trace, wk>>

\* run() in a build of the host with assertions, on a function for which it
\* requests an invalid cast: the host aborts the compilation
RunPassAbort(i) ==
    /\ Compiling
    /\ ~isSkippableFunction(funcs[i])
    /\ runs[i] < MaxRuns
    /\ Instrument(funcs, globals, funcs[i]).bad
    /\ last' = [fn |-> i, result |-> "crash"]
    /\ UNCHANGED <<funcs, globals, orig, runs, exec, trace, wk>>

\* the compiled program calls function i
Call(i) ==
    /\ Compiling
    /\ ~funcs[i].isDeclaration
    /\ \E a \in ArgVals(funcs[i].params), r \in Values(funcs[i].retTy) :
          exec' = [st |-> "called", fn |-> i, blk |-> 1, args |-> a, rv |-> r]
    /\ trace' = <<>>
    /\ UNCHANGED <<funcs, globals, orig, runs, last, wk>>

\* the invocation executes its current block and follows the terminator
Step ==
    /\ exec.st \in {"called", "running"}
    /\ LET F   == funcs[exec.fn]
           blk == F.blocks[exec.blk]
           T   == getTerminator(blk)
           env == [id \in 1..F.nextId |-> <<>>]
       IN  /\ trace' = trace \o ExecInstrs(blk, 1, env, exec)
           /\ CASE T.op = "ret" -> exec' = [exec EXCEPT !.st = "returned"]
                [] T.op = "br"  -> \E s \in T.succ : exec' = [exec EXCEPT !.st = "running", !.blk = s]
                [] OTHER        -> exec' = [exec EXCEPT !.st = "stuck"]
    /\ UNCHANGED <<funcs, globals, orig, runs, last, wk>>

Next ==
    \/ \E i \in 1..Len(funcs) : RunPassSkip(i)
    \/ \E i \in 1..Len(funcs) : RunPassInstrument(i)
    \/ \E i \in 1..Len(funcs) : RunPassAbort(i)
    \/ \E i \in 1..Len(funcs) : Call(i)
    \/ Step

Spec == Init /\ [][Next]_vars

----------------------------------------------------------------------------
(* The parallel specification: two invocations of run(), each on its own    *)
(* function of one unit, with no synchronization.  Each access of a run to  *)
(* the unit is a read of the unit followed by a write; the steps of the two *)
(* runs interleave.                                                          *)

ParFunctions(nm) ==
    { Function(nm, FALSE, FALSE, ps, VoidTy, OneBlock(k0, <<>>)) :
          ps \in {<<>>, <<IntTy(8)>>}, k0 \in {0} }

\* the accesses to the unit that run() makes for F, in program order
UnitAccesses(F) == Instrument(<<F>>, <<>>, F).mops

\* a worker: its function, the unit accesses of its run and its position in
\* them, and what its last read of the unit saw
Worker(i, F) ==
    [fn |-> i, ops |-> UnitAccesses(F), pc |-> 1, phase |-> "read",
     sawPrintf |-> FALSE, sawGlobals |-> <<>>]

InitPar ==
    /\ \E F \in ParFunctions(<<"f">>), G \in ParFunctions(<<"g">>), pre \in BOOLEAN :
          /\ funcs = <<F, G>> \o (IF pre THEN <<PrintfDecl>> ELSE <<>>)
          /\ wk = <<Worker(1, F), Worker(2, G)>>
    /\ globals = <<>>
    /\ orig = funcs
    /\ runs = [i \in 1..2 |-> 0]
    /\ last = NoRun
    /\ exec = Idle
    /\ trace = <<>>

AtOp(w, op, phase) ==
    /\ wk[w].pc <= Len(wk[w].ops)
    /\ wk[w].ops[wk[w].pc].op = op
    /\ wk[w].phase = phase

\* getOrInsertFunction, first half: look the name printf up
WkLookupPrintf(w) ==
    /\ AtOp(w, "printf", "read")
    /\ wk' = [wk EXCEPT ![w].phase = "write", ![w].sawPrintf = HasPrintf(funcs)]
    /\ UNCHANGED <<funcs, globals, orig, runs, last, exec, trace>>

\* getOrInsertFunction, second half: declare printf if the lookup found none
WkDeclarePrintf(w) ==
    /\ AtOp(w, "printf", "write")
    /\ funcs' = IF wk[w].sawPrintf THEN funcs ELSE Append(funcs, PrintfDecl)
    /\ wk' = [wk EXCEPT ![w].phase = "read", ![w].pc = @ + 1]
    /\ UNCHANGED <<globals, orig, runs, last, exec, trace>>

\* CreateGlobalStringPtr, first half: read the unit's list of globals
WkReadGlobals(w) ==
    /\ AtOp(w, "global", "read")
    /\ wk' = [wk EXCEPT ![w].phase = "write", ![w].sawGlobals = globals]
    /\ UNCHANGED <<funcs, globals, orig, runs, last, exec, trace>>

\* CreateGlobalStringPtr, second half: link the new global after the list read
WkAddGlobal(w) ==
    /\ AtOp(w, "global", "write")
    /\ LET A  == wk[w].ops[wk[w].pc]
           gl == wk[w].sawGlobals
       IN  globals' = Append(gl, Global(A.prefix, A.fn, SameName(gl, A.prefix, A.fn), A.fmt))
    /\ wk' = [wk EXCEPT ![w].phase = "read", ![w].sawGlobals = <<>>, ![w].pc = @ + 1]
    /\ UNCHANGED <<funcs, orig, runs, last, exec, trace>>

\* the instructions of the run go into the worker's own function
WkRewrite(w) ==
    /\ wk[w].pc = Len(wk[w].ops) + 1
    /\ LET i == wk[w].fn
           S == Instrument(funcs, globals, funcs[i])
       IN  funcs' = [funcs EXCEPT ![i].blocks = S.blocks, ![i].nextId = S.nextId]
    /\ runs' = [runs EXCEPT ![wk[w].fn] = @ + 1]
    /\ wk' = [wk EXCEPT ![w].pc = @ + 1]
    /\ UNCHANGED <<globals, orig, last, exec, trace>>

NextPar ==
    \/ \E w \in 1..Len(wk) : WkLookupPrintf(w)
    \/ \E w \in 1..Len(wk) : WkDeclarePrintf(w)
    \/ \E w \in 1..Len(wk) : WkReadGlobals(w)
    \/ \E w \in 1..Len(wk) : WkAddGlobal(w)
    \/ \E w \in 1..Len(wk) : WkRewrite(w)

SpecPar == InitPar /\ [][NextPar]_vars

----------------------------------------------------------------------------
(* What the claims speak of. *)

FnIdx == 1..Len(funcs)

\* the positions in blk of the log calls of one kind
CallsAt(blk, tag) ==
    {p \in 1..Len(blk) : blk[p].ins /\ blk[p].op = "call" /\ blk[p].tag = tag}
\* the positions in blk of the argument-log calls carrying index j
ArgCallsAt(blk, j) == {p \in CallsAt(blk, "arg") : blk[p].args[1].i = j}
\* the position of the first original instruction of blk
FirstOrig(blk) == CHOOSE p \in 1..Len(blk) : ~blk[p].ins /\ \A q \in 1..(p - 1) : blk[q].ins
\* the original instructions of blk, in order
Strip(blk) == SelectSeq(blk, LAMBDA I : ~I.ins)
\* the number of return sites of a function
NumReturns(F) == Cardinality({b \in 1..Len(F.blocks) : getTerminator(F.blocks[b]).op = "ret"})
\* the lines of one kind in the trace
LinesOf(tag) == {k \in 1..Len(trace) : trace[k].tag = tag}
ArgLinesOf(j) == {k \in LinesOf("arg") : trace[k].vals[1] = <<j>>}
\* the invocation has executed the entry block
Entered == exec.st \in {"running", "returned", "stuck"}
\* the filter as the specification words it
MeantToBeSkipped(F) ==
    \/ F.isDeclaration
    \/ F.isIntrinsic
    \/ F.name = printfName
    \/ (Len(F.name) >= 8 /\ \A c \in 1..8 : F.name[c] = loggerPrefix[c])

----------------------------------------------------------------------------
(* C1: after one run on a function the filter lets through, the entry block *)
(* holds exactly one entry-log call and it precedes every other instruction *)
(* of the block, inserted or original.                                      *)
C1_EntryLogFirst ==
    \A i \in FnIdx : runs[i] = 1 =>
        LET E == funcs[i].blocks[1]
        IN  /\ Cardinality(CallsAt(E, "enter")) = 1
            /\ \A p \in CallsAt(E, "enter") : p = 1

(* C2: after one run on a function with N parameters there are exactly N   *)
(* argument-log calls, one per index, in parameter order, after the        *)
(* entry-log call and before the first original instruction of the entry   *)
(* block.                                                                  *)
C2_ArgLogsInOrder ==
    \A i \in FnIdx : runs[i] = 1 =>
        LET F == funcs[i]
            E == F.blocks[1]
            N == Len(F.params)
        IN  /\ Cardinality(CallsAt(E, "arg")) = N
            /\ \A b \in 2..Len(F.blocks) : CallsAt(F.blocks[b], "arg") = {}
            /\ \A j \in 0..(N - 1) : Cardinality(ArgCallsAt(E, j)) = 1
            /\ \A p \in CallsAt(E, "arg") :
                  /\ \A e \in CallsAt(E, "enter") : e < p
                  /\ p < FirstOrig(E)
            /\ \A j, k \in 0..(N - 1) : j < k =>
                  \A p \in ArgCallsAt(E, j), q \in ArgCallsAt(E, k) : p < q

(* C3: after one run, every block that ends in a return holds exactly one  *)
(* return-log call, immediately before the return, and a block that does   *)
(* not end in a return holds none; so R returns give R return-log calls.   *)
C3_OneRetLogPerReturn ==
    \A i \in FnIdx : runs[i] = 1 =>
        \A b \in 1..Len(funcs[i].blocks) :
            LET blk == funcs[i].blocks[b]
            IN  IF getTerminator(blk).op = "ret"
                THEN CallsAt(blk, "ret") = {Len(blk) - 1}
                ELSE CallsAt(blk, "ret") = {}

C3_Witness ==
    \E i \in FnIdx :
        /\ runs[i] = 1
        /\ NumReturns(funcs[i]) = 2
        /\ \E b \in 1..Len(funcs[i].blocks) : getTerminator(funcs[i].blocks[b]).op # "ret"

(* C4: after one run, an invocation that has executed the entry block has  *)
(* written exactly one entry line and one argument line per parameter; it  *)
(* has written exactly one return line, as its last line, if it left       *)
(* through a return, and no return line otherwise.                         *)
C4_OneLinePerEvent ==
    (Entered /\ runs[exec.fn] = 1) =>
        /\ Cardinality(LinesOf("enter")) = 1
        /\ \A j \in 0..(Len(funcs[exec.fn].params) - 1) : Cardinality(ArgLinesOf(j)) = 1
        /\ Cardinality(LinesOf("arg")) = Len(funcs[exec.fn].params)
        /\ IF exec.st = "returned"
           THEN LinesOf("ret") = {Len(trace)}
           ELSE LinesOf("ret") = {}

C4_Witness ==
    /\ exec.st = "returned"
    /\ runs[exec.fn] = 1
    /\ exec.blk = 3
    /\ NumReturns(funcs[exec.fn]) = 2
    /\ Len(funcs[exec.fn].params) = 1

(* C5: a run of the pass leaves the function and the unit unchanged and    *)
(* reports all analyses preserved exactly when the function is a           *)
(* declaration, an intrinsic, named printf, or named with the prefix       *)
(* __logger; every other function, one with an empty name too, is changed. *)
C5_SkippedIffFiltered ==
    [][\A i \in FnIdx :
          (RunPassSkip(i) \/ RunPassInstrument(i) \/ RunPassAbort(i)) =>
              (MeantToBeSkipped(funcs[i]) <=>
                  (funcs' = funcs /\ globals' = globals /\ last'.result = "all"))]_vars

C5_Witness ==
    /\ last.fn # 0
    /\ last.result = "all"
    /\ ~funcs[last.fn].isDeclaration
    /\ ~funcs[last.fn].isIntrinsic
    /\ funcs[last.fn].name = loggerPrefix \o <<"x">>

(* C6: whatever the number of runs, every function has its original blocks, *)
(* each with its original instructions in their original order and its      *)
(* original terminator last; the inserted instructions are no terminators.  *)
C6_CFGPreserved ==
    /\ Len(funcs) >= Len(orig)
    /\ \A i \in 1..Len(orig) :
          /\ Len(funcs[i].blocks) = Len(orig[i].blocks)
          /\ funcs[i].params = orig[i].params
          /\ funcs[i].retTy = orig[i].retTy
          /\ \A b \in 1..Len(orig[i].blocks) :
                LET blk == funcs[i].blocks[b]
                IN  /\ Strip(blk) = orig[i].blocks[b]
                    /\ getTerminator(blk) = getTerminator(orig[i].blocks[b])
                    /\ \A p \in 1..Len(blk) : blk[p].ins => ~isTerminator(blk[p])

C6_Witness ==
    \E i \in FnIdx :
        /\ runs[i] = 2
        /\ Len(funcs[i].blocks) = 3
        /\ getTerminator(funcs[i].blocks[1]).succ = {2, 3}
        /\ Len(orig[i].blocks[1]) = 3

(* C7: however often the pass runs, the unit holds at most one function   *)
(* named printf, and exactly one once a function was instrumented; a       *)
(* function instrumented k times holds k entry-log calls, k argument-log   *)
(* calls per parameter and k return-log calls per return site, the unit    *)
(* holds k sets of string constants, and an invocation writes each line k  *)
(* times.                                                                  *)
PrintfCount == Cardinality({j \in FnIdx : funcs[j].name = printfName})

RECURSIVE GlobalsMade(_)
GlobalsMade(i) ==
    IF i = 0 THEN 0
    ELSE GlobalsMade(i - 1)
         + runs[i] * (2 + Len(funcs[i].params) + NumReturns(funcs[i]))

C7_RunsDuplicateLogs ==
    /\ PrintfCount <= 1
    /\ (\E i \in FnIdx : runs[i] >= 1) => PrintfCount = 1
    /\ Len(globals) = GlobalsMade(Len(funcs))
    /\ \A i \in FnIdx : ~funcs[i].isDeclaration =>
          LET F == funcs[i]
              E == F.blocks[1]
          IN  /\ Cardinality(CallsAt(E, "enter")) = runs[i]
              /\ \A j \in 0..(Len(F.params) - 1) : Cardinality(ArgCallsAt(E, j)) = runs[i]
              /\ \A b \in 1..Len(F.blocks) :
                    Cardinality(CallsAt(F.blocks[b], "ret")) =
                        IF getTerminator(F.blocks[b]).op = "ret" THEN runs[i] ELSE 0
    /\ Entered =>
          /\ Cardinality(LinesOf("enter")) = runs[exec.fn]
          /\ \A j \in 0..(Len(funcs[exec.fn].params) - 1) :
                Cardinality(ArgLinesOf(j)) = runs[exec.fn]
          /\ Cardinality(LinesOf("ret")) = IF exec.st = "returned" THEN runs[exec.fn] ELSE 0

C7_Witness ==
    /\ exec.st = "returned"
    /\ runs[exec.fn] = 2
    /\ Len(funcs[exec.fn].params) >= 1
    /\ Cardinality(LinesOf("ret")) = 2
    /\ PrintfCount = 1

(* C8: no run of the pass aborts, and every cast it inserts is valid: an   *)
(* integer is zero-extended only from fewer than 64 bits to 64, a          *)
(* floating-point value is extended only from a narrower type to double.   *)
C8_CastsWellTyped ==
    /\ last.result # "crash"
    /\ \A i \in FnIdx : \A b \in 1..Len(funcs[i].blocks) :
          \A p \in 1..Len(funcs[i].blocks[b]) :
              LET I == funcs[i].blocks[b][p]
              IN  (I.ins /\ I.op # "call") =>
                      /\ castIsValid(I.op, I.args[1].ty, I.ty)
                      /\ I.op = "zext" => (I.ty = IntTy(64) /\ I.args[1].ty.n < 64)
                      /\ I.op = "fpext" => (I.ty = FPTy(64) /\ I.args[1].ty.n < 64)

(* C9: an integer argument or return value of fewer than 64 bits with bit  *)
(* pattern b is passed to printf as the 64-bit value b: %lld shows the     *)
(* unsigned value of the pattern, never a negative number.                 *)
ReturnedValue ==
    LET O == getTerminator(funcs[exec.fn].blocks[exec.blk]).args[1]
    IN  IF O.k = "const" THEN O.v ELSE exec.rv

Narrow(T) == T.k = "int" /\ T.n < 64

C9_ZeroExtended ==
    Entered =>
        LET F == funcs[exec.fn]
        IN  /\ \A k \in LinesOf("arg") :
                  LET j == trace[k].vals[1][1]
                  IN  Narrow(F.params[j + 1]) =>
                          /\ Len(trace[k].vals[2]) = 64
                          /\ LLD(trace[k].vals[2]) = UVal(exec.args[j + 1])
            /\ (exec.st = "returned" /\ Narrow(F.retTy)) =>
                  \A k \in LinesOf("ret") :
                      /\ Len(trace[k].vals[1]) = 64
                      /\ LLD(trace[k].vals[1]) = UVal(ReturnedValue)

C9_Witness ==
    /\ exec.st = "returned"
    /\ funcs[exec.fn].params = <<IntTy(8)>>
    /\ funcs[exec.fn].retTy = IntTy(8)
    /\ exec.args[1] = Bits(200, 8)
    /\ exec.rv = Bits(200, 8)
    /\ \E k \in LinesOf("arg") : LLD(trace[k].vals[2]) = 200
    /\ \E k \in LinesOf("ret") : LLD(trace[k].vals[1]) = 200

(* C10: when two runs of the pass on two functions of one unit have both   *)
(* finished, whatever the interleaving of their steps, the unit holds what *)
(* it holds after the two runs one after the other: one printf, the same   *)
(* global string constants, the same two functions.                        *)
AllDone == wk # <<>> /\ \A w \in 1..Len(wk) : wk[w].pc = Len(wk[w].ops) + 2

\* the unit after run() on function 1 and then run() on function 2
OneAfterTheOther ==
    LET A   == Instrument(orig, <<>>, orig[1])
        fl1 == [A.fl EXCEPT ![1].blocks = A.blocks, ![1].nextId = A.nextId]
        B   == Instrument(fl1, A.gl, fl1[2])
    IN  [fl |-> [B.fl EXCEPT ![2].blocks = B.blocks, ![2].nextId = B.nextId], gl |-> B.gl]

Unnumbered(g) == [prefix |-> g.prefix, fn |-> g.fn, fmt |-> g.fmt]
CountOf(gl, g) == Cardinality({k \in 1..Len(gl) : Unnumbered(gl[k]) = g})

C10_InterleavingsAgree ==
    AllDone =>
        LET R == OneAfterTheOther
        IN  /\ PrintfCount = 1
            /\ Len(funcs) = Len(R.fl)
            /\ funcs[1] = R.fl[1]
            /\ funcs[2] = R.fl[2]
            /\ Len(globals) = Len(R.gl)
            /\ \A k \in 1..Len(R.gl) :
                  CountOf(globals, Unnumbered(R.gl[k])) = CountOf(R.gl, Unnumbered(R.gl[k]))

====
